---- MODULE Spec2Model ----
(***************************************************************************)
(* Model of control.py (E32HW quadcopter joystick control).                *)
(*                                                                         *)
(* Units.  Python floats are modelled as fixed-point integers: an axis,    *)
(* trim or deadzone value x stands for x / Scale, so 1.0 is One, the trim  *)
(* step 2/64 is 10 and the default deadzone 0.1 is 32.  Raw axis samples   *)
(* are chosen so that the deadzone rescale divides exactly.  Wall-clock    *)
(* time (time.perf_counter) is counted in quarter seconds, so the 0.5 s    *)
(* timeout is 2 and the 1 s timeout is 4.                                  *)
(***************************************************************************)
EXTENDS Integers, Sequences, FiniteSets, TLC

VARIABLES
    pc,          \* position of main(): "calibrate", "control" or "done"
    now,         \* time.perf_counter(), in quarter seconds
    vehicle,     \* the Vehicle instance (fields named as in the source)
    checkbox,    \* Ui._checkboxes: state of every urwid.CheckBox
    joy,         \* the attached device as pygame reports it
    events,      \* pygame's event queue (button and hat events)
    joystick,    \* the Joystick instance: _prev_hats and _map
    wizard,      \* the MappingUi instance
    wire,        \* the frame last handed to socket.sendto and its outcome
    files,       \* SETTINGS_PATH and the mapping file on disk
    ticks,       \* number of runs of run_services' update() so far
    nSent,       \* number of frames the transport accepted so far
    downEdges,   \* per toggle input: down edges of its source seen by ticks
    uiEvents,    \* number of user actions on the terminal UI so far
    env,         \* the session's environment, fixed when it starts: how
                 \* long it runs, which widgets the user touches, whether
                 \* the network can fail and the device can be unplugged
    services     \* the list given to run_services, the Video instance, and
                 \* the services whose cleanup the finally block has called

vars == <<pc, now, vehicle, checkbox, joy, events, joystick, wizard, wire,
          files, ticks, nSent, downEdges, uiEvents, env, services>>

-----------------------------------------------------------------------------
(* Bounds of the model *)

MaxTime == 5       \* quarter seconds a session with timed flags runs
ShortTime == 1     \* quarter seconds any other session runs
MaxTicks == 3      \* ticks taken from the start of the model
MaxEvents == 2     \* events pygame queues between two ticks
BurstEvents == 3   \* the same, where a button is pressed twice in a tick
LongTicks == 258   \* ticks of a session in which the sequence byte wraps
MaxFails == 1      \* failed sends in such a session
MaxSkips == 1      \* presses of Skip in a calibration that captures
MaxUiEvents == 1   \* user actions on the terminal UI
MaxSessions == 2   \* runs of main(), one after the other
LockSkips == 2     \* presses of Skip in a calibration with two axes
HatTicks == 2      \* ticks of a session driven by a hat
CrowdSkips == 3    \* presses of Skip in a calibration with two buttons

-----------------------------------------------------------------------------
(* Fixed point *)

Scale == 5 * 64
One == Scale

Min(a, b) == IF a < b THEN a ELSE b
Max(a, b) == IF a > b THEN a ELSE b
Abs(a) == IF a < 0 THEN -a ELSE a

\* None where a button is expected, and (None, None) where an axis is:
\* Joystick.__init__ stores no negative index, so -1 is free to stand for None
None == <<"None", -1>>
NoneAxis == <<-1, FALSE>>

-----------------------------------------------------------------------------
(* Module constants of control.py *)

DEFAULT_DEADZONE == 32
SAVE_SETTINGS ==
    <<"speed", "throttle_trim", "rudder_trim", "elevator_trim",
      "aileron_trim">>

Timeout_fly_360_roll == 2
Timeout_engine_start == 4
Timeout_fly_down == 4
Timeout_fly_up == 4

-----------------------------------------------------------------------------
(* Vehicle.inputs *)

TrimStep == (2 * Scale) \div 64

inputs ==
    << [id |-> "throttle",     type |-> "axis",   trim |-> FALSE, trim_step |-> 0],
       [id |-> "rudder",       type |-> "axis",   trim |-> TRUE,  trim_step |-> TrimStep],
       [id |-> "aileron",      type |-> "axis",   trim |-> TRUE,  trim_step |-> TrimStep],
       [id |-> "elevator",     type |-> "axis",   trim |-> TRUE,  trim_step |-> TrimStep],
       [id |-> "fly_no_head",  type |-> "toggle", trim |-> FALSE, trim_step |-> 0],
       [id |-> "speed",        type |-> "toggle", trim |-> FALSE, trim_step |-> 0],
       [id |-> "fly_360_roll", type |-> "once",   trim |-> FALSE, trim_step |-> 0],
       [id |-> "engine_start", type |-> "once",   trim |-> FALSE, trim_step |-> 0],
       [id |-> "fly_down",     type |-> "once",   trim |-> FALSE, trim_step |-> 0],
       [id |-> "fly_up",       type |-> "once",   trim |-> FALSE, trim_step |-> 0],
       [id |-> "fly_back",     type |-> "toggle", trim |-> FALSE, trim_step |-> 0],
       [id |-> "stop",         type |-> "push",   trim |-> FALSE, trim_step |-> 0],
       [id |-> "up",           type |-> "push",   trim |-> FALSE, trim_step |-> 0],
       [id |-> "light",        type |-> "toggle", trim |-> FALSE, trim_step |-> 0] >>

InputIds == {inputs[i].id : i \in DOMAIN inputs}
ToggleIds == {inputs[i].id : i \in {n \in DOMAIN inputs : inputs[n].type = "toggle"}}

-----------------------------------------------------------------------------
(* RangedProperty and TimedProperty *)

RangedNames ==
    {"throttle", "throttle_trim", "rudder", "rudder_trim", "aileron",
     "aileron_trim", "elevator", "elevator_trim"}
TimedNames == {"fly_360_roll", "engine_start", "fly_down", "fly_up"}

Timeout(k) ==
    CASE k = "fly_360_roll" -> Timeout_fly_360_roll
      [] k = "engine_start" -> Timeout_engine_start
      [] k = "fly_down" -> Timeout_fly_down
      [] k = "fly_up" -> Timeout_fly_up

\* the same without the upper limit
RangedSetNoMax(value, min_value, max_value) == Max(value, min_value)

\* RangedProperty._set: value = min(max(value, min_value), max_value)
RangedSet(value, min_value, max_value) ==
    Min(Max(value, min_value), max_value)

\* the same with <= for <
TimedGetInclusive(stored, timeout, t) ==
    IF t - stored[1] <= timeout THEN stored[2] ELSE FALSE

\* TimedProperty._get on the stored pair <<start_time, value>>
TimedGet(stored, timeout, t) ==
    IF t - stored[1] < timeout THEN stored[2] ELSE FALSE

\* TimedProperty._set
TimedSet(value, t) == <<t, value>>

-----------------------------------------------------------------------------
(* Vehicle: attribute access *)

\* the same without `self.fly_back = False`
SetFlyNoHeadKeepBack(v, value) ==
    [v EXCEPT !._fly_no_head = value,
              !.hist = [@ EXCEPT !.back_set = FALSE]]

\* Vehicle.fly_no_head.setter
SetFlyNoHead(v, value) ==
    [v EXCEPT !._fly_back = FALSE,
              !._fly_no_head = value,
              !.hist = [@ EXCEPT !.back_set = FALSE]]

\* Vehicle.fly_back.setter
SetFlyBack(v, value) ==
    [v EXCEPT !._fly_back = value,
              !.hist = [@ EXCEPT !.back_set = IF value THEN TRUE ELSE @]]

\* Vehicle.stop.setter
SetStop(v, value) ==
    IF value THEN [v EXCEPT !._up = FALSE, !._stop = value]
             ELSE [v EXCEPT !._stop = value]

\* the same without `if value: self._stop = False`
SetUpNoClear(v, value) == [v EXCEPT !._up = value]

\* Vehicle.up.setter
SetUp(v, value) ==
    IF value THEN [v EXCEPT !._stop = FALSE, !._up = value]
             ELSE [v EXCEPT !._up = value]

\* getattr(vehicle, k) at time t
GetAttr(v, k, t) ==
    CASE k = "fly_no_head" -> v._fly_no_head
      [] k = "fly_back" -> v._fly_no_head /\ v._fly_back
      [] k = "stop" -> v._stop
      [] k = "up" -> v._up
      [] k \in TimedNames -> TimedGet(v[k], Timeout(k), t)
      [] OTHER -> v[k]

\* what setattr(vehicle, k, value) at time t stores
Assign(v, k, value, t) ==
    CASE k = "fly_no_head" -> SetFlyNoHead(v, value)
      [] k = "fly_back" -> SetFlyBack(v, value)
      [] k = "stop" -> SetStop(v, value)
      [] k = "up" -> SetUp(v, value)
      [] k \in TimedNames -> [v EXCEPT ![k] = TimedSet(value, t)]
      [] k \in RangedNames -> [v EXCEPT ![k] = RangedSet(value, -One, One)]
      [] OTHER -> [v EXCEPT ![k] = value]

\* setattr(vehicle, k, value) at time t; hist.written collects the names
\* assigned since the log was last cleared
SetAttr(v, k, value, t) ==
    [Assign(v, k, value, t) EXCEPT !.hist = [@ EXCEPT !.written = @ \cup {k}]]

\* the log of assignments is kept only while one handler runs
ClearLog(v) == [v EXCEPT !.hist = [@ EXCEPT !.written = {}]]

ZeroPacket == [i \in 0..25 |-> 0]

\* class attributes of Vehicle before __init__ runs
VehicleDefaults ==
    [ throttle |-> 0, throttle_trim |-> 0, rudder |-> 0, rudder_trim |-> 0,
      aileron |-> 0, aileron_trim |-> 0, elevator |-> 0, elevator_trim |-> 0,
      hight |-> FALSE, _fly_no_head |-> FALSE, speed |-> FALSE,
      fly_360_roll |-> <<0, FALSE>>, engine_start |-> <<0, FALSE>>,
      fly_down |-> <<0, FALSE>>, fly_up |-> <<0, FALSE>>,
      _fly_back |-> FALSE, _stop |-> FALSE, middle_speed |-> FALSE,
      _up |-> FALSE, control_type |-> FALSE, product_type |-> 1,
      light |-> TRUE, _prev_packet |-> ZeroPacket,
      hist |-> [back_set |-> FALSE, written |-> {}, previous |-> <<>>] ]

RECURSIVE LoadSettings(_, _, _)
\* the loop of Vehicle.__init__ over SAVE_SETTINGS, from index i on
LoadSettings(v, j, i) ==
    IF i > Len(SAVE_SETTINGS) THEN v
    ELSE LET k == SAVE_SETTINGS[i] IN
         LoadSettings(IF k \in DOMAIN j THEN SetAttr(v, k, j[k], 0) ELSE v,
                      j, i + 1)

\* Vehicle.__init__ with the parsed settings file j (empty when missing)
VehicleInit(j) == ClearLog(LoadSettings(VehicleDefaults, j, 1))

\* the same leaving speed out
VehicleCleanupTrims(v, t) ==
    [k \in {SAVE_SETTINGS[i] : i \in DOMAIN SAVE_SETTINGS} \ {"speed"} |->
       GetAttr(v, k, t)]

\* Vehicle.cleanup: the object written to SETTINGS_PATH
VehicleCleanup(v, t) ==
    [k \in {SAVE_SETTINGS[i] : i \in DOMAIN SAVE_SETTINGS} |-> GetAttr(v, k, t)]

-----------------------------------------------------------------------------
(* Command encoder: bits_to_byte and Vehicle.update *)

RECURSIVE bits_to_byte(_)
\* value |= 1 << i for every true bits[i] (bits is 1-based here)
bits_to_byte(bits) ==
    IF bits = <<>> THEN 0
    ELSE (IF Head(bits) THEN 1 ELSE 0) + 2 * bits_to_byte(Tail(bits))

RECURSIVE SumSeq(_)
SumSeq(s) == IF s = <<>> THEN 0 ELSE Head(s) + SumSeq(Tail(s))

\* min(math.floor(x * 64) + 64, 127)
AxisByte(x) == Min(((x * 64) \div Scale) + 64, 127)
\* min(math.floor(x * 32) + 32, 63)
TrimByte(x) == Min(((x * 32) \div Scale) + 32, 63)

\* the 13 entries of cmd before the checksum is appended
CmdBody(v, t) ==
    << 255, 2,
       AxisByte(v.throttle), AxisByte(v.rudder),
       AxisByte(v.elevator), AxisByte(v.aileron),
       TrimByte(v.throttle_trim), TrimByte(v.aileron_trim),
       TrimByte(v.elevator_trim), TrimByte(v.rudder_trim),
       bits_to_byte(<< v.hight,
                       GetAttr(v, "fly_no_head", t),
                       v.speed,
                       GetAttr(v, "fly_360_roll", t),
                       GetAttr(v, "engine_start", t),
                       GetAttr(v, "fly_down", t),
                       GetAttr(v, "fly_up", t) >>),
       bits_to_byte(<< GetAttr(v, "fly_back", t),
                       GetAttr(v, "stop", t),
                       v.middle_speed,
                       GetAttr(v, "up", t),
                       v.control_type,
                       v.product_type % 2 = 1,
                       (v.product_type \div 2) % 2 = 1 >>),
       bits_to_byte(<< v.light >>) >>

\* the same summing cmd instead of cmd[1:]
ChecksumAll(body) == SumSeq(body) % 128

\* cmd.append(sum(cmd[1:]) & 0x7f)
Checksum(body) == SumSeq(Tail(body)) % 128

Cmd(v, t) == LET body == CmdBody(v, t) IN Append(body, Checksum(body))

\* (self._prev_packet[7] + 1) & 0xff
NextSequence(prev) == (prev[7] + 1) % 256

\* the list `packet` as first built, placeholder at offset 10
RawPacket(v, t) ==
    LET p == << 91, 82, 116, 62, 26, 0, 1, NextSequence(v._prev_packet),
                224, 0, 0, 0 >> \o Cmd(v, t)
    IN [i \in 0..(Len(p) - 1) |-> p[i + 1]]

RECURSIVE DiffSumReversed(_, _, _)
\* the same with diff += b - a
DiffSumReversed(prev, packet, i) ==
    IF i \notin DOMAIN prev \/ i \notin DOMAIN packet THEN 0
    ELSE (packet[i] - prev[i]) + DiffSumReversed(prev, packet, i + 1)

RECURSIVE DiffSum(_, _, _)
\* for a, b in zip(prev, packet): diff += a - b, from position i on
DiffSum(prev, packet, i) ==
    IF i \notin DOMAIN prev \/ i \notin DOMAIN packet THEN 0
    ELSE (prev[i] - packet[i]) + DiffSum(prev, packet, i + 1)

\* the same reducing mod 0x100
Packet256(v, t) ==
    LET raw == RawPacket(v, t) IN
    [raw EXCEPT ![10] = DiffSum(v._prev_packet, raw, 0) % 256]

\* packet[10] = diff % 0xff
Packet(v, t) ==
    LET raw == RawPacket(v, t) IN
    [raw EXCEPT ![10] = DiffSum(v._prev_packet, raw, 0) % 255]

\* the same with the assignment outside the else branch
AfterSendAlways(v, packet, ok) == [v EXCEPT !._prev_packet = packet]

\* the try/except/else around sendto: ok is the transport's outcome
AfterSend(v, packet, ok) ==
    IF ok THEN [v EXCEPT !._prev_packet = packet] ELSE v

-----------------------------------------------------------------------------
(* Joystick: __init__, _normalize_axis, get_state *)

\* one entry of the mapping given to Joystick.__init__: does it stay in _map
KeepsEntry(k, e) ==
    CASE e.kind = "null" -> FALSE
      [] e.kind = "num" -> e.val >= 0
      [] e.kind = "axis" -> e.val[1] >= 0
      [] e.kind = "btn" -> e.val[2] >= 0

\* the value stored under key k: scalars become (v, False) or ('btn', v)
MapValue(k, e) ==
    CASE k = "DEADZONE" -> e.val
      [] e.kind = "num" /\ k \in {i \o "_axis" : i \in InputIds} -> <<e.val, FALSE>>
      [] e.kind = "num" -> <<"btn", e.val>>
      [] OTHER -> e.val

\* Joystick.__init__: self._map built from joystick_mapping
JoystickMap(mapping) ==
    LET kept == {k \in DOMAIN mapping : KeepsEntry(k, mapping[k])} IN
    [k \in kept \cup {"DEADZONE"} |->
        IF k \in kept THEN MapValue(k, mapping[k]) ELSE DEFAULT_DEADZONE]

\* self._map.get(k), with None for a missing button and (None, None) for a
\* missing axis
MapGet(map, k, default) == IF k \in DOMAIN map THEN map[k] ELSE default

\* Joystick._normalize_axis
NormalizeAxis(value, deadzone) ==
    LET clamped == Min(Max(value, -One), One)
        abs_value == Abs(clamped)
        scaled == Min(One, ((abs_value - deadzone) * Scale) \div (Scale - deadzone))
    IN IF abs_value < deadzone THEN 0
       ELSE IF clamped <= 0 THEN -scaled ELSE scaled

When(cond, x) == IF cond THEN {x} ELSE {}

\* the four buttons_up tests of one JOYHATMOTION event
HatUp(prev_hat, e) ==
    When(prev_hat[1] = -1 /\ e.value[1] # -1, <<"hat", e.hat * 4 + 0>>)
    \cup When(prev_hat[1] = 1 /\ e.value[1] # 1, <<"hat", e.hat * 4 + 2>>)
    \cup When(prev_hat[2] = 1 /\ e.value[2] # 1, <<"hat", e.hat * 4 + 3>>)
    \cup When(prev_hat[2] = -1 /\ e.value[2] # -1, <<"hat", e.hat * 4 + 1>>)

\* the same without the tests of prev_hat
HatDownLevel(prev_hat, e) ==
    When(e.value[1] = -1, <<"hat", e.hat * 4 + 0>>)
    \cup When(e.value[1] = 1, <<"hat", e.hat * 4 + 2>>)
    \cup When(e.value[2] = 1, <<"hat", e.hat * 4 + 3>>)
    \cup When(e.value[2] = -1, <<"hat", e.hat * 4 + 1>>)

\* the four buttons_down tests of one JOYHATMOTION event
HatDown(prev_hat, e) ==
    When(prev_hat[1] # -1 /\ e.value[1] = -1, <<"hat", e.hat * 4 + 0>>)
    \cup When(prev_hat[1] # 1 /\ e.value[1] = 1, <<"hat", e.hat * 4 + 2>>)
    \cup When(prev_hat[2] # 1 /\ e.value[2] = 1, <<"hat", e.hat * 4 + 3>>)
    \cup When(prev_hat[2] # -1 /\ e.value[2] = -1, <<"hat", e.hat * 4 + 1>>)

RECURSIVE ProcessEvents(_, _)
\* for e in button_events: ..., acc holds buttons_down, buttons_up, _prev_hats
ProcessEvents(evs, acc) ==
    IF evs = <<>> THEN acc
    ELSE LET e == Head(evs) IN
      ProcessEvents(Tail(evs),
        CASE e.type = "JOYBUTTONDOWN" ->
               [acc EXCEPT !.down = @ \cup {<<"btn", e.button>>}]
          [] e.type = "JOYBUTTONUP" ->
               [acc EXCEPT !.up = @ \cup {<<"btn", e.button>>}]
          [] e.type = "JOYHATMOTION" ->
               LET prev_hat == MapGet(acc.prev_hats, e.hat, <<0, 0>>) IN
               [down |-> acc.down \cup HatDown(prev_hat, e),
                up |-> acc.up \cup HatUp(prev_hat, e),
                prev_hats |-> [h \in DOMAIN acc.prev_hats \cup {e.hat} |->
                                 IF h = e.hat THEN e.value
                                 ELSE acc.prev_hats[h]]])

\* the polled levels: active_buttons of get_state
ActiveButtons(j) ==
    {<<"hat", i * 4 + 0>> : i \in {h \in DOMAIN j.hats : j.hats[h][1] = -1}}
    \cup {<<"hat", i * 4 + 2>> : i \in {h \in DOMAIN j.hats : j.hats[h][1] = 1}}
    \cup {<<"hat", i * 4 + 3>> : i \in {h \in DOMAIN j.hats : j.hats[h][2] = 1}}
    \cup {<<"hat", i * 4 + 1>> : i \in {h \in DOMAIN j.hats : j.hats[h][2] = -1}}
    \cup {<<"btn", i>> : i \in {b \in DOMAIN j.buttons : j.buttons[b]}}

\* axes = [], indexed from 0 like every list of the source
NoAxes == [i \in {} |-> 0]

\* Joystick.get_state: what it returns and the _prev_hats it leaves
GetState(js, j, evs) ==
    IF j.count = 0
    THEN [down |-> {}, up |-> {}, active |-> {}, axes |-> NoAxes,
          prev_hats |-> js._prev_hats]
    ELSE LET acc == ProcessEvents(evs, [down |-> {}, up |-> {},
                                        prev_hats |-> js._prev_hats])
         IN [down |-> acc.down, up |-> acc.up,
             active |-> ActiveButtons(j),
             axes |-> [i \in DOMAIN j.axes |->
                         NormalizeAxis(j.axes[i], js._map["DEADZONE"])],
             prev_hats |-> acc.prev_hats]

\* the Joystick instance after get_state returned st for the device j
Polled(js, j, st) ==
    [js EXCEPT !._prev_hats = st.prev_hats, !.hist = [count |-> j.count]]

-----------------------------------------------------------------------------
(* Joystick.update: the mapper *)

\* the same assigning the neutral value where the source has `continue`
AxisInputNeutral(v, e, map, st, t) ==
    LET entry == MapGet(map, e.id \o "_axis", NoneAxis)
        axis == entry[1]
    IN IF axis = NoneAxis[1] \/ axis >= Cardinality(DOMAIN st.axes)
       THEN SetAttr(v, e.id, 0, t)
       ELSE SetAttr(v, e.id,
                    IF entry[2] THEN -st.axes[axis] ELSE st.axes[axis], t)

\* the axis branch of the loop body: the axis value and its trim buttons
AxisInput(v, e, map, st, t) ==
    LET entry == MapGet(map, e.id \o "_axis", NoneAxis)
        axis == entry[1]
        invert == entry[2]
    IN IF axis = NoneAxis[1] \/ axis >= Cardinality(DOMAIN st.axes) THEN v
       ELSE
         LET value == IF invert THEN -st.axes[axis] ELSE st.axes[axis]
             v1 == SetAttr(v, e.id, value, t)
             button_dec == MapGet(map, e.id \o "_trim_dec_btn", None)
             button_inc == MapGet(map, e.id \o "_trim_inc_btn", None)
             trim_id == e.id \o "_trim"
             v2 == IF e.trim /\ button_dec \in st.down
                   THEN SetAttr(v1, trim_id,
                                GetAttr(v1, trim_id, t) - e.trim_step, t)
                   ELSE v1
             v3 == IF e.trim /\ button_inc \in st.down
                   THEN SetAttr(v2, trim_id,
                                GetAttr(v2, trim_id, t) + e.trim_step, t)
                   ELSE v2
         IN v3

\* the same testing the level of the source instead of its down edge
OnceInputHeld(v, e, button, st, t) ==
    IF button \in st.active THEN SetAttr(v, e.id, TRUE, t) ELSE v

\* e['type'] == 'once'
OnceInput(v, e, button, st, t) ==
    IF button \in st.down THEN SetAttr(v, e.id, TRUE, t) ELSE v

\* the same assigning True instead of the negation
ToggleInputSetTrue(v, e, button, st, t) ==
    IF button \in st.down THEN SetAttr(v, e.id, TRUE, t) ELSE v

\* e['type'] == 'toggle'
ToggleInput(v, e, button, st, t) ==
    IF button \in st.down
    THEN SetAttr(v, e.id, ~GetAttr(v, e.id, t), t) ELSE v

\* the same without the elif branch that releases the input
PushInputNoRelease(v, e, button, st, t) ==
    IF button \in st.active THEN SetAttr(v, e.id, TRUE, t) ELSE v

\* the same releasing the input whenever its source is not active
PushInputElseFalse(v, e, button, st, t) ==
    SetAttr(v, e.id, button \in st.active, t)

\* e['type'] == 'push'
PushInput(v, e, button, st, t) ==
    IF button \in st.active THEN SetAttr(v, e.id, TRUE, t)
    ELSE IF button \in st.up THEN SetAttr(v, e.id, FALSE, t)
    ELSE v

\* the body of the loop of Joystick.update for one input e
ApplyInput(v, e, map, st, t) ==
    IF e.type = "axis" THEN AxisInput(v, e, map, st, t)
    ELSE
        LET button == MapGet(map, e.id \o "_btn", None) IN
        CASE e.type = "once" -> OnceInput(v, e, button, st, t)
          [] e.type = "toggle" -> ToggleInput(v, e, button, st, t)
          [] e.type = "push" -> PushInput(v, e, button, st, t)

RECURSIVE ApplyInputsBackwards(_, _, _, _, _)
\* the same going through the inputs from the last to the one at index i
ApplyInputsBackwards(v, i, map, st, t) ==
    IF i > Len(inputs) THEN v
    ELSE ApplyInput(ApplyInputsBackwards(v, i + 1, map, st, t), inputs[i],
                    map, st, t)

RECURSIVE ApplyInputs(_, _, _, _, _)
\* for e in self._vehicle.inputs, from index i on
ApplyInputs(v, i, map, st, t) ==
    IF i > Len(inputs) THEN v
    ELSE ApplyInputs(ApplyInput(v, inputs[i], map, st, t), i + 1, map, st, t)

\* Joystick.update on the state st returned by get_state
JoystickUpdate(v, map, st, t) == ApplyInputs(v, 1, map, st, t)

-----------------------------------------------------------------------------
(* Ui: the callbacks press and trim, and Ui.update *)

\* the same without the early return for a once input that reads true
PressAlways(v, id, type, state, t) == SetAttr(v, id, state, t)

\* Ui.__init__.press(obj, state, (_id, _type))
Press(v, id, type, state, t) ==
    IF type = "once" /\ GetAttr(v, id, t) THEN v
    ELSE SetAttr(v, id, state, t)

\* Ui.__init__.trim(obj, (axis_name, value))
Trim(v, axis_name, value, t) ==
    SetAttr(v, axis_name \o "_trim",
            GetAttr(v, axis_name \o "_trim", t) + value, t)

\* the inputs that get a check box, in creation order
CheckboxInputs == SelectSeq(inputs, LAMBDA e : e.type # "axis")

RECURSIVE SyncCheckboxes(_, _, _)
\* for k, v in self._checkboxes.items(): v.set_state(getattr(vehicle, k)).
\* urwid's CheckBox.set_state returns when the state is unchanged and
\* otherwise emits 'change', which runs press with the new state, before it
\* stores the state.
SyncCheckboxes(s, i, t) ==
    IF i > Len(CheckboxInputs) THEN s
    ELSE LET e == CheckboxInputs[i]
             state == GetAttr(s.v, e.id, t)
         IN SyncCheckboxes(
              IF s.cb[e.id] = state THEN s
              ELSE [v |-> Press(s.v, e.id, e.type, state, t),
                    cb |-> [s.cb EXCEPT ![e.id] = state]],
              i + 1, t)

\* Ui.update (the progress bars hold no state of their own)
UiUpdate(v, cb, t) == SyncCheckboxes([v |-> v, cb |-> cb], 1, t)

-----------------------------------------------------------------------------
(* The device behind pygame.joystick and pygame.event *)

HatValues == {<<x, y>> : x \in {-1, 0, 1}, y \in {-1, 0, 1}}

\* a device with nb buttons, nh hats and na axes, everything at rest
Device(nb, nh, na) ==
    [count |-> 1,
     buttons |-> [b \in 0..(nb - 1) |-> FALSE],
     hats |-> [h \in 0..(nh - 1) |-> <<0, 0>>],
     axes |-> [a \in 0..(na - 1) |-> 0]]

\* what the user can do to the device in one move: the device afterwards
\* and the events pygame queues for the move
DeviceMoves(j, rawAxis, hotplug) ==
    IF j.count = 0 THEN {}
    ELSE {[joy |-> [j EXCEPT !.buttons[b] = ~@],
           evs |-> << [type |-> IF j.buttons[b] THEN "JOYBUTTONUP"
                                ELSE "JOYBUTTONDOWN",
                       button |-> b] >>] : b \in DOMAIN j.buttons}
         \cup {[joy |-> [j EXCEPT !.hats[hv[1]] = hv[2]],
                evs |-> << [type |-> "JOYHATMOTION", hat |-> hv[1],
                            value |-> hv[2]] >>] :
               hv \in {x \in (DOMAIN j.hats) \X HatValues : j.hats[x[1]] # x[2]}}
         \cup {[joy |-> [j EXCEPT !.axes[ar[1]] = ar[2]], evs |-> <<>>] :
               ar \in {x \in (DOMAIN j.axes) \X rawAxis : j.axes[x[1]] # x[2]}}
         \cup {[joy |-> [j EXCEPT !.count = 0], evs |-> <<>>] :
               x \in {h \in {TRUE} : hotplug}}

RECURSIVE CountDown(_, _, _)
\* number of down edges of source src in the event list evs
CountDown(evs, prev_hats, src) ==
    IF evs = <<>> THEN 0
    ELSE LET one == ProcessEvents(<<Head(evs)>>,
                        [down |-> {}, up |-> {}, prev_hats |-> prev_hats])
         IN (IF src \in one.down THEN 1 ELSE 0)
            + CountDown(Tail(evs), one.prev_hats, src)

-----------------------------------------------------------------------------
(* Construction of the services *)

\* MappingUi.__init__ (hist.captures counts the entries update() wrote,
\* hist.rested holds the axes a tick has seen below 0.1 since they were last
\* captured, hist.qualified is the number of axes or buttons the latest
\* update() could have taken for its prompt)
MappingUiInit ==
    [mapping |-> [k \in {} |-> None], success |-> FALSE,
     _locked_axes |-> {}, _current |-> 0, _current_sub |-> 0,
     hist |-> [captures |-> 0, rested |-> {}, qualified |-> 0]]

\* Joystick.__init__ (hist.count is what pygame.joystick.get_count()
\* returned in the latest get_state, -1 before the first)
JoystickInit(mapping) ==
    [_prev_hats |-> [h \in {} |-> <<0, 0>>], _map |-> JoystickMap(mapping),
     hist |-> [count |-> -1]]

\* every urwid.CheckBox starts unchecked
CheckboxInit == [id \in {CheckboxInputs[i].id : i \in DOMAIN CheckboxInputs} |-> FALSE]

NoWire == [packet |-> ZeroPacket, ok |-> FALSE]

\* main(): services = [joystick, ui, vehicle], with Video inserted in front
\* under --video; nothing is cleaned up yet and no player runs
Services(video) ==
    [list |-> (IF video THEN <<"video">> ELSE <<>>)
                \o <<"joystick", "ui", "vehicle">>,
     video |-> [_process |-> FALSE],
     cleaned |-> <<>>, raised |-> {}, session |-> 1]

\* the list of the calibration session: [mapping_ui]
WizardServices ==
    [list |-> <<"mapping_ui">>, video |-> [_process |-> FALSE],
     cleaned |-> <<>>, raised |-> {}, session |-> 1]

\* Video.update: starts the player when there is none (or it has exited)
VideoUpdate(sv) ==
    IF \E i \in DOMAIN sv.list : sv.list[i] = "video"
    THEN [sv EXCEPT !.video = [_process |-> TRUE]]
    ELSE sv
NoMapping == [k \in {} |-> 0]

-----------------------------------------------------------------------------
(* Actions of the control session: run_services(ui.loop, [joystick, ui, vehicle]) *)

\* the user moves a stick, hat or button, or unplugs the device
JoyInput ==
    /\ pc \in {"calibrate", "control"}
    /\ \E m \in DeviceMoves(joy, env.rawAxis, env.hotplug) :
         /\ Len(events) + Len(m.evs) <= env.maxEvents
         /\ joy' = m.joy
         /\ events' = events \o m.evs
    /\ UNCHANGED <<pc, now, vehicle, checkbox, joystick, wizard, wire, files,
                   ticks, nSent, downEdges, uiEvents, env, services>>

\* time.perf_counter() moves on by a quarter second
AdvanceTime ==
    /\ pc \in {"calibrate", "control"}
    /\ now < env.maxTime
    /\ now' = now + 1
    /\ UNCHANGED <<pc, vehicle, checkbox, joy, events, joystick, wizard, wire,
                   files, ticks, nSent, downEdges, uiEvents, env, services>>

\* one pass of [s.update() for s in services] with services
\* [joystick, ui, vehicle]; ok is the outcome of sendto
ControlStep(v, cb, js, j, evs, t, ok) ==
    LET st == GetState(js, j, evs)
        v1 == JoystickUpdate(v, js._map, st, t)
        u == UiUpdate(v1, cb, t)
        packet == Packet(u.v, t)
    IN [vehicle |-> ClearLog(AfterSend(u.v, packet, ok)),
        checkbox |-> u.cb,
        joystick |-> Polled(js, j, st),
        wire |-> [packet |-> packet, ok |-> ok]]

\* what sendto can do: fail (OSError) at most env.maxFails times
SendOutcomes ==
    {TRUE} \cup {ok \in {FALSE} : ticks - nSent < env.maxFails}

Tick ==
    /\ pc = "control"
    /\ ticks < env.maxTicks
    /\ \E ok \in SendOutcomes :
         LET r == ControlStep(vehicle, checkbox, joystick, joy, events, now, ok)
         IN /\ vehicle' = r.vehicle
            /\ checkbox' = r.checkbox
            /\ joystick' = r.joystick
            /\ wire' = r.wire
            /\ nSent' = IF ok THEN nSent + 1 ELSE nSent
    /\ events' = <<>>
    /\ ticks' = ticks + 1
    /\ downEdges' =
         [id \in DOMAIN downEdges |->
            downEdges[id]
            + IF joy.count = 0 THEN 0
              ELSE CountDown(events, joystick._prev_hats,
                             MapGet(joystick._map, id \o "_btn", None))]
    /\ services' = VideoUpdate(services)
    /\ UNCHANGED <<pc, now, joy, wizard, files, uiEvents, env>>

\* the user toggles the check box of input id
UiPress ==
    /\ pc = "control"
    /\ uiEvents < env.maxUi
    /\ \E i \in DOMAIN CheckboxInputs :
         LET e == CheckboxInputs[i]
             state == ~checkbox[e.id]
         IN /\ e.id \in env.widgets
            /\ vehicle' = ClearLog(Press(vehicle, e.id, e.type, state, now))
            /\ checkbox' = [checkbox EXCEPT ![e.id] = state]
    /\ uiEvents' = uiEvents + 1
    /\ UNCHANGED <<pc, now, joy, events, joystick, wizard, wire, files, ticks,
                   nSent, downEdges, env, services>>

\* the user presses the '-' or '+' button of a trim bar
UiTrim ==
    /\ pc = "control"
    /\ uiEvents < env.maxUi
    /\ \E i \in DOMAIN inputs, sign \in {-1, 1} :
         /\ inputs[i].type = "axis" /\ inputs[i].trim
         /\ inputs[i].id \o "_trim" \in env.widgets
         /\ vehicle' = ClearLog(Trim(vehicle, inputs[i].id,
                                     sign * inputs[i].trim_step, now))
    /\ uiEvents' = uiEvents + 1
    /\ UNCHANGED <<pc, now, checkbox, joy, events, joystick, wizard, wire,
                   files, ticks, nSent, downEdges, env, services>>

\* the user-adjustable settings as they read when a session ends
Snapshot(v, t) ==
    [k \in {"speed", "light", "throttle_trim", "rudder_trim", "elevator_trim",
            "aileron_trim"} |-> GetAttr(v, k, t)]

RECURSIVE RunCleanups(_, _)
\* [s.cleanup() for s in services] in the finally block: the services whose
\* cleanup is called when those in `raising` raise; nothing catches the
\* exception, so it ends the comprehension
RunCleanups(list, raising) ==
    IF list = <<>> THEN <<>>
    ELSE IF Head(list) \in raising THEN <<Head(list)>>
    ELSE <<Head(list)>> \o RunCleanups(Tail(list), raising)

\* the services whose cleanup can raise now: Video.cleanup calls terminate()
\* only when a player was started, Vehicle.cleanup opens SETTINGS_PATH
CanRaise(sv) ==
    {s \in env.raises : s = "video" => sv.video._process}

\* the file system after the cleanups in `called` ran: Vehicle.cleanup, when
\* it is reached and does not raise, writes the settings
AfterCleanups(called, raising, v, t) ==
    IF \E i \in DOMAIN called : called[i] = "vehicle" /\ "vehicle" \notin raising
    THEN [files EXCEPT !.settings = VehicleCleanup(v, t)]
    ELSE files

\* Exit button or KeyboardInterrupt: the finally block of run_services runs
\* the cleanups.  main() then returns and the process is gone: what is left
\* of its memory is not kept (services.cleaned and services.raised stay, to
\* tell what the shutdown did).
Shutdown ==
    /\ pc = "control"
    /\ pc' = "done"
    /\ \E raising \in SUBSET CanRaise(services) :
         LET called == RunCleanups(services.list, raising) IN
         /\ files' = AfterCleanups(called, raising, vehicle, now)
         /\ services' = [list |-> services.list,
                         video |-> [_process |-> FALSE],
                         cleaned |-> called,
                         raised |-> {called[i] : i \in DOMAIN called} \cap raising,
                         session |-> services.session]
    /\ now' = 0
    /\ vehicle' = [VehicleDefaults EXCEPT
                      !.hist = [@ EXCEPT !.previous = Snapshot(vehicle, now)]]
    /\ checkbox' = CheckboxInit
    /\ joy' = Device(0, 0, 0)
    /\ events' = <<>>
    /\ joystick' = JoystickInit(NoMapping)
    /\ wire' = NoWire
    /\ ticks' = 0
    /\ nSent' = 0
    /\ downEdges' = [id \in DOMAIN downEdges |-> 0]
    /\ uiEvents' = 0
    /\ UNCHANGED <<wizard, env>>

NextControl ==
    \/ JoyInput
    \/ AdvanceTime
    \/ Tick
    \/ UiPress
    \/ UiTrim
    \/ Shutdown

-----------------------------------------------------------------------------
(* Start of a control session: main() from `vehicle = Vehicle()` on, with the
   mapping read from the mapping file *)

\* a mapping file entry: a scalar, null, [axis, invert] or [kind, index]
Num(n) == [kind |-> "num", val |-> n]
Null == [kind |-> "null", val |-> 0]
AxisEntry(i, invert) == [kind |-> "axis", val |-> <<i, invert>>]
BtnEntry(kind, i) == [kind |-> "btn", val |-> <<kind, i>>]

NoSettings == [k \in {} |-> 0]

InitControl(settings, mappings, devices, e) ==
    \E j \in settings, m \in mappings, d \in devices :
      /\ pc = "control"
      /\ now = 0
      /\ vehicle = VehicleInit(j)
      /\ checkbox = CheckboxInit
      /\ joy = d
      /\ events = <<>>
      /\ joystick = JoystickInit(m)
      /\ wizard = MappingUiInit
      /\ wire = NoWire
      /\ files = [settings |-> j, mapping |-> m]
      /\ ticks = 0
      /\ nSent = 0
      /\ downEdges = [id \in ToggleIds |-> 0]
      /\ uiEvents = 0
      /\ env = e
      /\ services = Services(e.video)

\* stop and up on two buttons, and both on the same button
PushMapping ==
    [k \in {"stop_btn", "up_btn"} |->
       IF k = "stop_btn" THEN BtnEntry("btn", 0) ELSE Num(1)]
PushSameMapping == [k \in {"stop_btn", "up_btn"} |-> Num(0)]

InitPush ==
    InitControl({NoSettings}, {PushMapping, PushSameMapping},
                {Device(2, 0, 0)},
                [maxTime |-> ShortTime, maxTicks |-> MaxTicks,
                 maxEvents |-> MaxEvents, maxUi |-> MaxUiEvents,
                 widgets |-> {"stop", "up", "rudder_trim"},
                 maxFails |-> MaxFails, rawAxis |-> {},
                 hotplug |-> FALSE,
                 video |-> FALSE, raises |-> {}])
SpecPush == InitPush /\ [][NextControl]_vars

\* the four toggles on two buttons
ToggleMapping ==
    [k \in {"fly_no_head_btn", "speed_btn", "fly_back_btn", "light_btn"} |->
       IF k \in {"fly_no_head_btn", "speed_btn"} THEN Num(0)
       ELSE BtnEntry("btn", 1)]

SpeedSetting == [k \in {"speed"} |-> TRUE]

InitToggle ==
    InitControl({NoSettings, SpeedSetting}, {ToggleMapping},
                {Device(2, 0, 0)},
                [maxTime |-> ShortTime, maxTicks |-> MaxTicks,
                 maxEvents |-> BurstEvents, maxUi |-> MaxUiEvents,
                 widgets |-> {"fly_no_head", "fly_back", "rudder_trim"},
                 maxFails |-> 0, rawAxis |-> {},
                 hotplug |-> FALSE,
                 video |-> FALSE, raises |-> {}])
SpecToggle == InitToggle /\ [][NextControl]_vars

\* rudder on axis 0, inverted, with its two trim buttons
AxisMapping ==
    [k \in {"rudder_axis", "rudder_trim_dec_btn", "rudder_trim_inc_btn"} |->
       CASE k = "rudder_axis" -> AxisEntry(0, TRUE)
         [] k = "rudder_trim_dec_btn" -> Num(0)
         [] k = "rudder_trim_inc_btn" -> BtnEntry("btn", 1)]

\* a settings file whose trims lie at and beyond the limits
TrimSettings ==
    [k \in {"throttle_trim", "rudder_trim", "elevator_trim", "aileron_trim"} |->
       CASE k = "throttle_trim" -> One + 80
         [] k = "rudder_trim" -> One - 5
         [] k = "elevator_trim" -> -(3 * One)
         [] k = "aileron_trim" -> -One]

InitAxis ==
    InitControl({NoSettings, TrimSettings}, {AxisMapping},
                {Device(2, 0, 1)},
                [maxTime |-> ShortTime, maxTicks |-> MaxTicks,
                 maxEvents |-> MaxEvents, maxUi |-> MaxUiEvents,
                 widgets |-> {"light", "rudder_trim"},
                 maxFails |-> 0, rawAxis |-> {0, 16 - One, One},
                 hotplug |-> FALSE,
                 video |-> FALSE, raises |-> {}])
SpecAxis == InitAxis /\ [][NextControl]_vars

\* two of the momentary flags on one button
OnceMapping ==
    [k \in {"fly_360_roll_btn", "engine_start_btn"} |-> Num(0)]

InitOnce ==
    InitControl({NoSettings}, {OnceMapping}, {Device(1, 0, 0)},
                [maxTime |-> MaxTime, maxTicks |-> MaxTicks,
                 maxEvents |-> MaxEvents, maxUi |-> MaxUiEvents,
                 widgets |-> {"fly_360_roll", "fly_up", "rudder_trim"},
                 maxFails |-> 0, rawAxis |-> {},
                 hotplug |-> FALSE,
                 video |-> FALSE, raises |-> {}])
SpecOnce == InitOnce /\ [][NextControl]_vars

\* throttle on axis 0 and light on button 0, over a network that can fail
FrameMapping ==
    [k \in {"throttle_axis", "light_btn"} |-> Num(0)]

InitFrames ==
    InitControl({NoSettings, TrimSettings}, {FrameMapping},
                {Device(1, 0, 1)},
                [maxTime |-> ShortTime, maxTicks |-> MaxTicks,
                 maxEvents |-> MaxEvents, maxUi |-> MaxUiEvents,
                 widgets |-> {"fly_up", "rudder_trim"},
                 maxFails |-> MaxTicks, rawAxis |-> {0, 176, One},
                 hotplug |-> FALSE,
                 video |-> FALSE, raises |-> {}])
SpecFrames == InitFrames /\ [][NextControl]_vars

\* a session long enough for the sequence byte to wrap, in which the user
\* does little and a send fails at most MaxFails times
InitLong ==
    InitControl({NoSettings}, {NoMapping}, {Device(1, 0, 0)},
                [maxTime |-> ShortTime, maxTicks |-> LongTicks,
                 maxEvents |-> 1, maxUi |-> MaxUiEvents,
                 widgets |-> {"light", "rudder_trim"},
                 maxFails |-> MaxFails, rawAxis |-> {},
                 hotplug |-> FALSE,
                 video |-> FALSE, raises |-> {}])
SpecLong == InitLong /\ [][NextControl]_vars

\* rudder on axis 0 with its trim buttons, stop and light on button 0, and
\* a device that can be unplugged
UnplugMapping ==
    [k \in {"rudder_axis", "rudder_trim_dec_btn", "rudder_trim_inc_btn",
            "stop_btn", "light_btn"} |->
       CASE k = "rudder_axis" -> Num(0)
         [] k = "rudder_trim_inc_btn" -> Num(1)
         [] OTHER -> Num(0)]

InitUnplug ==
    InitControl({NoSettings}, {UnplugMapping}, {Device(2, 0, 1)},
                [maxTime |-> ShortTime, maxTicks |-> MaxTicks,
                 maxEvents |-> MaxEvents, maxUi |-> MaxUiEvents,
                 widgets |-> {"stop", "rudder_trim"},
                 maxFails |-> 0, rawAxis |-> {0, One},
                 hotplug |-> TRUE,
                 video |-> FALSE, raises |-> {}])
SpecUnplug == InitUnplug /\ [][NextControl]_vars

\* a mapping file that maps fly_down to button 0 and aileron to axis 0, and
\* leaves every other input unmapped: by a negative index, by null, or by
\* having no entry
UnmappedMapping ==
    [k \in {"fly_down_btn", "aileron_axis", "throttle_axis", "rudder_axis",
            "rudder_trim_dec_btn", "fly_no_head_btn", "speed_btn",
            "fly_360_roll_btn", "engine_start_btn", "stop_btn", "light_btn",
            "DEADZONE"} |->
       CASE k = "fly_down_btn" -> Num(0)
         [] k = "aileron_axis" -> AxisEntry(0, FALSE)
         [] k = "throttle_axis" -> Num(-1)
         [] k = "rudder_axis" -> AxisEntry(-2, TRUE)
         [] k = "rudder_trim_dec_btn" -> Num(0)
         [] k = "fly_no_head_btn" -> Num(-1)
         [] k = "speed_btn" -> BtnEntry("hat", -3)
         [] k = "fly_360_roll_btn" -> BtnEntry("btn", -1)
         [] k = "engine_start_btn" -> Null
         [] k = "stop_btn" -> Null
         [] k = "light_btn" -> Num(-4)
         [] k = "DEADZONE" -> Null]

InitUnmapped ==
    InitControl({NoSettings}, {UnmappedMapping}, {Device(2, 0, 1)},
                [maxTime |-> ShortTime, maxTicks |-> MaxTicks,
                 maxEvents |-> MaxEvents, maxUi |-> MaxUiEvents,
                 widgets |-> {"stop", "rudder_trim"},
                 maxFails |-> 0, rawAxis |-> {0, One},
                 hotplug |-> FALSE,
                 video |-> FALSE, raises |-> {}])
SpecUnmapped == InitUnmapped /\ [][NextControl]_vars

\* the program is started again: main() reads the mapping file and
\* Vehicle.__init__ the settings file the earlier session left
Restart ==
    /\ pc = "done"
    /\ services.session < env.maxSessions
    /\ pc' = "control"
    /\ vehicle' = [VehicleInit(files.settings) EXCEPT
                      !.hist = [@ EXCEPT !.previous = vehicle.hist.previous]]
    /\ joystick' = JoystickInit(files.mapping)
    /\ joy' = env.device
    /\ services' = [Services(env.video) EXCEPT !.session = services.session + 1]
    /\ UNCHANGED <<now, checkbox, events, wizard, wire, files, ticks, nSent,
                   downEdges, uiEvents, env>>

NextSessions ==
    \/ NextControl
    \/ Restart

\* speed and light on button 0, with the video player, started twice; the
\* cleanups that call into the operating system can raise
SessionMapping == [k \in {"speed_btn", "light_btn"} |-> Num(0)]

InitSessions ==
    InitControl({NoSettings, TrimSettings}, {SessionMapping}, {Device(1, 0, 0)},
                [maxTime |-> ShortTime, maxTicks |-> MaxTicks,
                 maxEvents |-> MaxEvents, maxUi |-> MaxUiEvents,
                 widgets |-> {"speed", "rudder_trim"},
                 maxFails |-> 0, rawAxis |-> {},
                 hotplug |-> FALSE,
                 video |-> TRUE, raises |-> {"video", "vehicle"},
                 maxSessions |-> MaxSessions, device |-> Device(1, 0, 0)])
SpecSessions == InitSessions /\ [][NextSessions]_vars

\* the four directions of hat 0 on stop, speed, up and light
HatMapping ==
    [k \in {"stop_btn", "speed_btn", "up_btn", "light_btn"} |->
       CASE k = "stop_btn" -> BtnEntry("hat", 0)
         [] k = "speed_btn" -> BtnEntry("hat", 1)
         [] k = "up_btn" -> BtnEntry("hat", 2)
         [] k = "light_btn" -> BtnEntry("hat", 3)]

InitHat ==
    InitControl({NoSettings}, {HatMapping}, {Device(0, 1, 0)},
                [maxTime |-> ShortTime, maxTicks |-> HatTicks,
                 maxEvents |-> MaxEvents, maxUi |-> MaxUiEvents,
                 widgets |-> {"light", "rudder_trim"},
                 maxFails |-> 0, rawAxis |-> {},
                 hotplug |-> FALSE,
                 video |-> FALSE, raises |-> {}])
SpecHat == InitHat /\ [][NextControl]_vars

-----------------------------------------------------------------------------
(* The calibration session: run_services(mapping_ui.loop, [mapping_ui]) *)

\* the same advancing through the sub-steps of every axis
NextInputAllTrim(w) ==
    IF w._current < Len(inputs)
    THEN LET _input == inputs[w._current + 1] IN
         IF _input.type = "axis" /\ w._current_sub < 2
         THEN [w EXCEPT !._current_sub = @ + 1]
         ELSE [w EXCEPT !._current = @ + 1, !._current_sub = 0]
    ELSE w

\* the same leaving _current_sub as it is when it moves to the next input
NextInputKeepSub(w) ==
    IF w._current < Len(inputs)
    THEN LET _input == inputs[w._current + 1] IN
         IF _input.type = "axis" /\ _input.trim /\ w._current_sub < 2
         THEN [w EXCEPT !._current_sub = @ + 1]
         ELSE [w EXCEPT !._current = @ + 1]
    ELSE w

\* MappingUi._next_input
NextInput(w) ==
    IF w._current < Len(inputs)
    THEN LET _input == inputs[w._current + 1] IN
         IF _input.type = "axis" /\ _input.trim /\ w._current_sub < 2
         THEN [w EXCEPT !._current_sub = @ + 1]
         ELSE [w EXCEPT !._current = @ + 1, !._current_sub = 0]
    ELSE w

\* sorted(buttons_down)[0]: tuples compare by kind, then by index
FirstSorted(S) ==
    CHOOSE x \in S : \A y \in S :
        \/ x[1] = "btn" /\ y[1] = "hat"
        \/ x[1] = y[1] /\ x[2] <= y[2]

\* the same calling _next_input once more
CaptureTwoSteps(w, input_name, value) ==
    NextInput(NextInput([w EXCEPT
        !.mapping = [k \in DOMAIN w.mapping \cup {input_name} |->
                       IF k = input_name THEN value ELSE w.mapping[k]],
        !.hist = [@ EXCEPT !.captures = @ + 1]]))

\* self.mapping[input_name] = value; self._next_input()
Capture(w, input_name, value) ==
    NextInput([w EXCEPT
        !.mapping = [k \in DOMAIN w.mapping \cup {input_name} |->
                       IF k = input_name THEN value ELSE w.mapping[k]],
        !.hist = [@ EXCEPT !.captures = @ + 1]])

\* the same without the test of _locked_axes
CandidatesIgnoreLock(w, axes) ==
    {i \in DOMAIN axes : Abs(axes[i]) >= (9 * One) \div 10}

\* the axes the capture loop of update would take: at least 0.9 and unlocked
Candidates(w, axes) ==
    {i \in DOMAIN axes : Abs(axes[i]) >= (9 * One) \div 10 /\ i \notin w._locked_axes}

\* MappingUi.update past the early return, on the state st of get_state
MappingUiUpdate(w, st) ==
    LET low == {i \in DOMAIN st.axes : Abs(st.axes[i]) < One \div 10}
        _input == inputs[w._current + 1]
        unlocked == [w EXCEPT
            !._locked_axes = @ \ low,
            !.hist = [@ EXCEPT
                !.rested = @ \cup low,
                !.qualified =
                    IF _input.type = "axis" /\ w._current_sub = 0
                    THEN Cardinality({i \in DOMAIN st.axes \ (w._locked_axes \ low) :
                                        Abs(st.axes[i]) >= (9 * One) \div 10})
                    ELSE Cardinality(st.down)]]
        sub_name == IF w._current_sub = 1 THEN "dec" ELSE "inc"
    IN IF _input.type = "axis" /\ w._current_sub > 0
       THEN IF st.down # {}
            THEN Capture(unlocked, _input.id \o "_trim_" \o sub_name \o "_btn",
                         FirstSorted(st.down))
            ELSE unlocked
       ELSE IF _input.type = "axis"
       THEN IF Candidates(unlocked, st.axes) # {}
            THEN LET i == CHOOSE c \in Candidates(unlocked, st.axes) :
                              \A d \in Candidates(unlocked, st.axes) : c <= d
                 IN Capture([unlocked EXCEPT
                                !._locked_axes = @ \cup {i},
                                !.hist = [@ EXCEPT !.rested = @ \ {i}]],
                            _input.id \o "_axis", <<i, st.axes[i] >= 0>>)
            ELSE unlocked
       ELSE IF st.down # {}
       THEN Capture(unlocked, _input.id \o "_btn", FirstSorted(st.down))
       ELSE unlocked

\* one pass of [s.update() for s in services] with services [mapping_ui];
\* in the terminal state update returns before it polls the joystick
WizardTick ==
    /\ pc = "calibrate"
    /\ IF wizard._current >= Len(inputs)
       THEN UNCHANGED <<wizard, joystick, events>>
       ELSE LET st == GetState(joystick, joy, events) IN
            /\ wizard' = MappingUiUpdate(wizard, st)
            /\ joystick' = Polled(joystick, joy, st)
            /\ events' = <<>>
    /\ UNCHANGED <<pc, now, vehicle, checkbox, joy, wire, files, ticks, nSent,
                   downEdges, uiEvents, env, services>>

\* skip_or_finish while the button reads 'Skip'
Skip ==
    /\ pc = "calibrate"
    /\ wizard._current < Len(inputs)
    /\ uiEvents < env.maxUi
    /\ wizard' = NextInput(wizard)
    /\ uiEvents' = uiEvents + 1
    /\ UNCHANGED <<pc, now, vehicle, checkbox, joy, events, joystick, wire,
                   files, ticks, nSent, downEdges, env, services>>

\* the mapping as json.dump writes it
MappingFile(mapping) ==
    [k \in DOMAIN mapping |->
       IF k \in {id \o "_axis" : id \in InputIds}
       THEN AxisEntry(mapping[k][1], mapping[k][2])
       ELSE BtnEntry(mapping[k][1], mapping[k][2])]

\* the same without the test of mapping_ui.success
ProceedsAnyway(completed, success) == completed

\* main(): `if not run_services(...) or not mapping_ui.success: return`;
\* true when main() goes on past that return
Proceeds(completed, success) == completed /\ success

\* main() once mapping_ui.loop has been left with the wizard w; completed is
\* what run_services returns (False after KeyboardInterrupt).  main() either
\* writes the mapping and builds the Joystick of the control session, or
\* returns: the process is gone and what is left of its memory is not kept
\* (hist.captures stays, to tell what the run had captured).
LeaveWizard(w, completed) ==
    IF Proceeds(completed, w.success)
    THEN /\ pc' = "control"
         /\ wizard' = w
         /\ files' = [files EXCEPT !.mapping = MappingFile(w.mapping)]
         /\ joystick' = JoystickInit(MappingFile(w.mapping))
         /\ services' = Services(env.video)
         /\ UNCHANGED <<now, vehicle, checkbox, joy, events, wire, ticks,
                        nSent, downEdges, uiEvents, env>>
    ELSE /\ pc' = "done"
         /\ now' = 0
         /\ vehicle' = VehicleDefaults
         /\ joy' = Device(0, 0, 0)
         /\ events' = <<>>
         /\ joystick' = JoystickInit(NoMapping)
         /\ wizard' = [MappingUiInit EXCEPT !.hist = w.hist]
         /\ uiEvents' = 0
         /\ services' = [services EXCEPT !.cleaned = services.list]
         /\ UNCHANGED <<checkbox, wire, files, ticks, nSent, downEdges, env>>

\* skip_or_finish while the button reads 'Finish': success is set and the
\* main loop is left
Finish ==
    /\ pc = "calibrate"
    /\ wizard._current >= Len(inputs)
    /\ LeaveWizard([wizard EXCEPT !.success = TRUE], TRUE)

\* the Exit button (run_services returns True) or KeyboardInterrupt (it
\* returns False), in any state of the wizard
WizardExit ==
    /\ pc = "calibrate"
    /\ \E completed \in BOOLEAN : LeaveWizard(wizard, completed)

NextWizard ==
    \/ JoyInput
    \/ AdvanceTime
    \/ WizardTick
    \/ Skip
    \/ Finish
    \/ WizardExit

\* main() with create_mapping: the temporary Joystick has an empty mapping
InitCalibrate(settings, devices, envs) ==
    \E j \in settings, d \in devices, e \in envs :
      /\ pc = "calibrate"
      /\ now = 0
      /\ vehicle = VehicleInit(j)
      /\ checkbox = CheckboxInit
      /\ joy = d
      /\ events = <<>>
      /\ joystick = JoystickInit(NoMapping)
      /\ wizard = MappingUiInit
      /\ wire = NoWire
      /\ files = [settings |-> j, mapping |-> NoMapping]
      /\ ticks = 0
      /\ nSent = 0
      /\ downEdges = [id \in ToggleIds |-> 0]
      /\ uiEvents = 0
      /\ env = e
      /\ services = WizardServices

\* number of capture-or-skip steps from the first prompt to the terminal state
WizardSteps == Len(inputs) + 2 * Cardinality({i \in DOMAIN inputs : inputs[i].trim})

\* a user who captures and presses Skip at most MaxSkips times, and a user
\* who skips every prompt
InitWizard ==
    InitCalibrate({NoSettings}, {Device(1, 0, 1)},
        {[maxTime |-> ShortTime, maxTicks |-> 0, maxEvents |-> MaxEvents,
          maxUi |-> MaxSkips, widgets |-> {}, maxFails |-> 0,
          rawAxis |-> {0, -One, One}, hotplug |-> FALSE,
                 video |-> FALSE, raises |-> {}],
         [maxTime |-> 0, maxTicks |-> 0, maxEvents |-> 0,
          maxUi |-> WizardSteps, widgets |-> {}, maxFails |-> 0,
          rawAxis |-> {}, hotplug |-> FALSE,
                 video |-> FALSE, raises |-> {}]})
SpecWizard == InitWizard /\ [][NextWizard]_vars

\* a device with two axes and no button, whose user deflects the axes fully,
\* half way or not at all and presses Skip at most LockSkips times; and a
\* user who skips every prompt
InitLock ==
    InitCalibrate({NoSettings}, {Device(0, 0, 2)},
        {[maxTime |-> ShortTime, maxTicks |-> 0, maxEvents |-> 0,
          maxUi |-> LockSkips, widgets |-> {}, maxFails |-> 0,
          rawAxis |-> {0, 176, One, -One}, hotplug |-> FALSE,
          video |-> FALSE, raises |-> {}],
         [maxTime |-> 0, maxTicks |-> 0, maxEvents |-> 0,
          maxUi |-> WizardSteps, widgets |-> {}, maxFails |-> 0,
          rawAxis |-> {}, hotplug |-> FALSE,
          video |-> FALSE, raises |-> {}]})
SpecLock == InitLock /\ [][NextWizard]_vars

\* a device with two buttons and no axis and a device with two axes and no
\* button, whose user presses Skip at most CrowdSkips times; and a user who
\* skips every prompt
InitCrowd ==
    InitCalibrate({NoSettings}, {Device(2, 0, 0), Device(0, 0, 2)},
        {[maxTime |-> ShortTime, maxTicks |-> 0, maxEvents |-> MaxEvents,
          maxUi |-> CrowdSkips, widgets |-> {}, maxFails |-> 0,
          rawAxis |-> {0, One, -One}, hotplug |-> FALSE,
          video |-> FALSE, raises |-> {}],
         [maxTime |-> 0, maxTicks |-> 0, maxEvents |-> 0,
          maxUi |-> WizardSteps, widgets |-> {}, maxFails |-> 0,
          rawAxis |-> {}, hotplug |-> FALSE,
          video |-> FALSE, raises |-> {}]})
SpecCrowd == InitCrowd /\ [][NextWizard]_vars

-----------------------------------------------------------------------------
(* What a tick is about to see, and reads of the vehicle *)

\* the state get_state returns in the next tick
Sample == GetState(joystick, joy, events)

\* the source mapped to the button of input id, None when unmapped
Source(id) == MapGet(joystick._map, id \o "_btn", None)

Reads(id) == GetAttr(vehicle, id, now)

\* bit i of the byte at offset o of a frame
Bit(packet, o, i) == (packet[o] \div (2 ^ i)) % 2 = 1

-----------------------------------------------------------------------------
(* C1: stop and up are never both true, whoever assigned them: the mapper,
   the check boxes or the setters run by Ui.update. *)
C1_StopUpExclusive == ~(Reads("stop") /\ Reads("up"))

\* up reads true and the last frame sent carried the stop bit: up was
\* assigned true while stop was true
C1_Witness ==
    /\ pc = "control" /\ nSent > 0
    /\ Reads("up")
    /\ Bit(vehicle._prev_packet, 23, 1)

-----------------------------------------------------------------------------
(* C8 as claimed: after a mapper tick in which the mapped source of a push
   input is active the input reads true, and after a tick in which the source
   is in the up set and not active it reads false. *)
C8_Original ==
    [][(pc = "control" /\ ticks' = ticks + 1) =>
        \A id \in {"stop", "up"} :
          Source(id) # None =>
            /\ Source(id) \in Sample.active => GetAttr(vehicle', id, now')
            /\ (Source(id) \in Sample.up /\ Source(id) \notin Sample.active)
                 => ~GetAttr(vehicle', id, now')]_vars

(* C8 amended: after a mapper tick in which the source of up is active, up
   reads true; after one in which the source of stop is active and the source
   of up is not, stop reads true; after one in which the source of an input
   is in the up set and not active, the input reads false. *)
C8_PushFollowsSource ==
    [][(pc = "control" /\ ticks' = ticks + 1) =>
        /\ Source("up") \in Sample.active => GetAttr(vehicle', "up", now')
        /\ (Source("stop") \in Sample.active /\ Source("up") \notin Sample.active)
             => GetAttr(vehicle', "stop", now')
        /\ \A id \in {"stop", "up"} :
             (Source(id) \in Sample.up /\ Source(id) \notin Sample.active)
                => ~GetAttr(vehicle', id, now')]_vars

\* stop was sent as true, its button has since been released and the tick
\* that saw the release has run (its frame was refused)
C8_Witness ==
    /\ pc = "control" /\ ticks > 0 /\ events = <<>> /\ ~wire.ok
    /\ Source("stop") = <<"btn", 0>> /\ ~joy.buttons[0]
    /\ Bit(vehicle._prev_packet, 23, 1)
    /\ ~Reads("stop") /\ ~Reads("up")
    /\ joy.count = 1 /\ uiEvents = 0

-----------------------------------------------------------------------------
(* C2: fly_back reads true only if fly_no_head reads true and fly_back was
   assigned true after the most recent assignment to fly_no_head
   (hist.back_set records exactly that). *)
C2_FlyBackNeedsNoHead ==
    Reads("fly_back") => (Reads("fly_no_head") /\ vehicle.hist.back_set)

\* fly_back was sent as true, fly_no_head has been assigned since, and
\* the underlying flag is off
C2_Witness ==
    /\ pc = "control"
    /\ Bit(vehicle._prev_packet, 23, 0)
    /\ ~Reads("fly_no_head") /\ ~vehicle.hist.back_set
    /\ ~vehicle._fly_back
    /\ ~Reads("fly_back")

-----------------------------------------------------------------------------
\* the value an input has when the session starts
InitialValue(id) == GetAttr(VehicleInit(files.settings), id, 0)

(* C9 as claimed: once the ticks have consumed N down edges of the source of
   a toggle input (and the user left the check boxes alone), the input
   differs from its initial value exactly when N is odd. *)
C9_Original ==
    (pc = "control" /\ uiEvents = 0 /\ events = <<>>) =>
      \A id \in ToggleIds :
        Source(id) # None =>
          ((Reads(id) # InitialValue(id)) <=> (downEdges[id] % 2 = 1))

(* C9 amended: a mapper tick flips fly_no_head, speed and light exactly when
   the down set of the tick holds the input's source, however many down edges
   the tick's events carry; it flips fly_back on the same condition in a tick
   in which fly_no_head reads true and is not itself toggled, and fly_back
   reads false after every tick that leaves fly_no_head false. *)
C9_TogglePerTick ==
    [][(pc = "control" /\ ticks' = ticks + 1) =>
        /\ \A id \in {"fly_no_head", "speed", "light"} :
             Source(id) # None =>
               (GetAttr(vehicle', id, now')
                  = (GetAttr(vehicle, id, now) # (Source(id) \in Sample.down)))
        /\ (/\ Source("fly_back") # None
            /\ Reads("fly_no_head")
            /\ Source("fly_no_head") \notin Sample.down)
             => (GetAttr(vehicle', "fly_back", now')
                   = (Reads("fly_back") # (Source("fly_back") \in Sample.down)))
        /\ ~GetAttr(vehicle', "fly_no_head", now')
             => ~GetAttr(vehicle', "fly_back", now')]_vars

\* the first tick consumed two down edges of the source of light, and light
\* was flipped once
C9_Witness ==
    /\ pc = "control" /\ ticks = 1
    /\ downEdges["light"] = 2
    /\ Reads("light") # InitialValue("light")

-----------------------------------------------------------------------------
\* clamp(x, -1, 1), written out
Clamped(x) == IF x > One THEN One ELSE IF x < -One THEN -One ELSE x

\* the value the settings file gives k, 0 when it gives none
Setting(k) == IF k \in DOMAIN files.settings THEN files.settings[k] ELSE 0

(* C3: every axis and every trim lies in [-1, 1] in every reachable state;
   an assigned value is clamped, never rejected: throttle_trim, which only
   the settings file assigns, reads clamp(setting), a press of a trim
   button of the UI leaves clamp(old +- trim_step), and a mapper tick leaves
   in rudder the clamped (here inverted) reading of its axis. *)
C3_RangedClamped ==
    [][/\ \A k \in RangedNames : vehicle'[k] \in (-One)..One
       /\ pc' = "control" => vehicle'.throttle_trim = Clamped(Setting("throttle_trim"))
       /\ (pc = "control" /\ uiEvents' = uiEvents + 1 /\ checkbox' = checkbox) =>
            \E k \in {"rudder_trim", "aileron_trim", "elevator_trim"},
               d \in {-TrimStep, TrimStep} :
              /\ vehicle'[k] = Clamped(vehicle[k] + d)
              /\ \A o \in RangedNames \ {k} : vehicle'[o] = vehicle[o]
       /\ (pc = "control" /\ ticks' = ticks + 1
              /\ MapGet(joystick._map, "rudder_axis", NoneAxis) = <<0, TRUE>>
              /\ 0 \in DOMAIN Sample.axes) =>
            vehicle'.rudder = Clamped(-Sample.axes[0])]_vars

\* the settings file put rudder_trim half a step below 1, a trim button was
\* pressed and rudder_trim reads exactly 1
C3_Witness ==
    /\ pc = "control" /\ uiEvents = 1
    /\ Setting("rudder_trim") = One - 5
    /\ Setting("throttle_trim") > One
    /\ vehicle.rudder_trim = One
    /\ vehicle.throttle_trim = One

-----------------------------------------------------------------------------
\* the flag k was last set to true, less than its timeout ago
SetTrueRecently(v, k, t) == v[k][2] /\ t - v[k][1] < Timeout(k)

(* C4: a momentary flag reads true exactly when it was last set to true and
   less than its timeout has elapsed since; so it reads true right after it
   is set to true, and once it has expired it reads false until it is set
   again. *)
C4_MomentaryFlag ==
    [][\A k \in TimedNames :
        /\ GetAttr(vehicle', k, now') = SetTrueRecently(vehicle', k, now')
        /\ (vehicle'[k] # vehicle[k] /\ vehicle'[k][2]) => GetAttr(vehicle', k, now')
        /\ (vehicle'[k] = vehicle[k] /\ vehicle[k][2] /\ ~GetAttr(vehicle, k, now))
             => ~GetAttr(vehicle', k, now')]_vars

\* fly_360_roll was set to true by a tick, exactly its timeout has elapsed
\* and it reads false, while the slower engine_start set in the same tick
\* still reads true
C4_Witness ==
    /\ pc = "control"
    /\ vehicle.fly_360_roll[2] /\ now - vehicle.fly_360_roll[1] = Timeout_fly_360_roll
    /\ ~Reads("fly_360_roll")
    /\ Reads("engine_start")

-----------------------------------------------------------------------------
(* C5: the frame handed to the transport carries the number of frames sent
   successfully before it, plus one, mod 256: the k-th frame the transport
   accepts carries k mod 256, a frame it refuses carries what the next
   accepted frame will carry, and the previous-frame buffer holds the
   sequence of the last accepted frame. *)
C5_SequenceByte ==
    /\ ticks > 0 =>
         wire.packet[7] = (IF wire.ok THEN nSent ELSE nSent + 1) % 256
    /\ vehicle._prev_packet[7] = nSent % 256

\* a send failed, and the 256th accepted frame carries 0
C5_Witness ==
    /\ pc = "control"
    /\ nSent = 256 /\ ticks = 257
    /\ wire.ok /\ wire.packet[7] = 0

-----------------------------------------------------------------------------
RECURSIVE ByteSum(_, _, _)
\* sum of f[i] for i in lo..hi
ByteSum(f, lo, hi) == IF lo > hi THEN 0 ELSE f[lo] + ByteSum(f, lo + 1, hi)

(* C6: in every tick the diff byte of the frame handed to the transport is
   the sum over the 26 positions of previous[i] - new[i], mod 255, where new
   is the frame with 0 at offset 10 and previous is the last frame the
   transport accepted (all zeros before the first): the buffer takes the
   frame when the send succeeds and stays when it fails. *)
C6_DiffByte ==
    [][(pc = "control" /\ ticks' = ticks + 1) =>
        LET new == [wire'.packet EXCEPT ![10] = 0]
            previous == vehicle._prev_packet
        IN /\ wire'.packet[10]
                = (ByteSum(previous, 0, 25) - ByteSum(new, 0, 25)) % 255
           /\ vehicle'._prev_packet
                = IF wire'.ok THEN wire'.packet ELSE previous
           /\ ticks = 0 => previous = ZeroPacket]_vars

\* the last send failed after an earlier one succeeded, with a frame that
\* differs from the accepted one in more than sequence and diff
C6_Witness ==
    /\ pc = "control"
    /\ nSent > 0 /\ ~wire.ok /\ ticks > nSent
    /\ wire.packet[14] # vehicle._prev_packet[14]

-----------------------------------------------------------------------------
(* C7: every frame handed to the transport has 26 bytes, starts with
   5B 52 74 3E 1A 00 01, then the sequence byte and E0, and ends with the sum
   of the 12 bytes before the last one, mod 128. *)
C7_FrameLayout ==
    ticks > 0 =>
      /\ DOMAIN wire.packet = 0..25
      /\ \A i \in 0..25 : wire.packet[i] \in 0..255
      /\ <<wire.packet[0], wire.packet[1], wire.packet[2], wire.packet[3],
           wire.packet[4], wire.packet[5], wire.packet[6]>>
            = <<91, 82, 116, 62, 26, 0, 1>>
      /\ wire.packet[8] = 224
      /\ wire.packet[25] = ByteSum(wire.packet, 13, 24) % 128

\* a frame with the throttle deflected, the trims of the settings file and
\* the light switched off
C7_Witness ==
    /\ pc = "control" /\ ticks > 0
    /\ wire.packet[14] = 127
    /\ wire.packet[18] = 63
    /\ wire.packet[24] = 0

-----------------------------------------------------------------------------
\* number of steps from the first prompt to the position of the wizard
StepIndex(w) ==
    w._current + 2 * Cardinality({i \in 1..w._current : inputs[i].trim})
    + w._current_sub

(* C10: with N = 14 descriptors of which T = 3 are trim-capable axes, every
   capture and every skip advances the wizard by one step, so it is in the
   terminal state exactly when captures + skips = N + 2T = 20; a skip adds no
   mapping entry, and the mapping has as many entries as there were captures
   (20 in a run without skips). *)
C10_WizardSteps ==
    [][pc' = "calibrate" =>
        /\ StepIndex(wizard') = wizard'.hist.captures + uiEvents'
        /\ (wizard'._current = Len(inputs))
             <=> (wizard'.hist.captures + uiEvents' = 14 + 2 * 3)
        /\ wizard'._current <= Len(inputs)
        /\ Cardinality(DOMAIN wizard'.mapping) = wizard'.hist.captures
        /\ uiEvents' = uiEvents + 1 =>
             /\ wizard'.mapping = wizard.mapping
             /\ StepIndex(wizard') = StepIndex(wizard) + 1]_vars

\* the terminal state of a run without skips: 20 entries
C10_Witness ==
    /\ pc = "calibrate"
    /\ wizard._current = Len(inputs)
    /\ uiEvents = 0
    /\ Cardinality(DOMAIN wizard.mapping) = 20

-----------------------------------------------------------------------------
(* C11: while the wizard runs, success is not set; leaving it by Exit or
   KeyboardInterrupt ends main() with the files on disk as they were and no
   control session (no mapping file, no tick); main() goes on to the control
   session only from the terminal state with success set, and then the
   mapping file and the Joystick built from it hold exactly the entries the
   wizard accumulated. *)
C11_ExitDiscards ==
    [][pc = "calibrate" =>
        /\ ~wizard.success
        /\ pc' = "done" =>
             /\ files' = files
             /\ files'.mapping = NoMapping
             /\ ticks' = 0 /\ nSent' = 0
        /\ pc' = "control" =>
             /\ wizard._current = Len(inputs)
             /\ wizard'.success
             /\ wizard'.mapping = wizard.mapping
             /\ DOMAIN files'.mapping = DOMAIN wizard.mapping
             /\ \A k \in DOMAIN wizard.mapping :
                  files'.mapping[k].val = wizard.mapping[k]
             /\ joystick'._map
                  = [k \in DOMAIN wizard.mapping \cup {"DEADZONE"} |->
                       IF k = "DEADZONE" THEN DEFAULT_DEADZONE
                       ELSE wizard.mapping[k]]]_vars

\* the wizard was left by Exit after it had captured entries, and nothing
\* was written
C11_Witness ==
    /\ pc = "done"
    /\ wizard.hist.captures > 2
    /\ files.mapping = NoMapping

-----------------------------------------------------------------------------
\* the names the mapper assigns in the next tick
MapperWrites ==
    JoystickUpdate(vehicle, joystick._map, Sample, now).hist.written

\* the names of the Vehicle State a mapping can drive
Driven == InputIds \cup {"rudder_trim", "aileron_trim", "elevator_trim"}

(* C12: in a tick that finds no device attached, get_state returns empty
   down, up and active sets and no axes, the mapper assigns nothing, and
   after the whole tick (mapper, Ui.update, encoder) every axis, trim and
   flag reads what it read before, whatever the mapping and whatever the
   queue and the levels of the device held when it went away. *)
C12_NoDeviceNoWrite ==
    [][(pc = "control" /\ ticks' = ticks + 1 /\ joy.count = 0) =>
        /\ Sample.down = {} /\ Sample.up = {} /\ Sample.active = {}
        /\ DOMAIN Sample.axes = {}
        /\ MapperWrites = {}
        /\ JoystickUpdate(vehicle, joystick._map, Sample, now) = vehicle
        /\ \A k \in Driven : GetAttr(vehicle', k, now') = GetAttr(vehicle, k, now)
        /\ events' = <<>>]_vars

\* the latest tick found no device, and its frame still carries the full
\* rudder deflection, the stop flag and the trim step of earlier ticks
C12_Witness ==
    /\ pc = "control" /\ joystick.hist.count = 0
    /\ vehicle.rudder = One /\ wire.packet[15] = 127
    /\ Reads("stop") /\ Bit(wire.packet, 23, 1)
    /\ vehicle.rudder_trim = TrimStep
    /\ uiEvents = 0

-----------------------------------------------------------------------------
\* the mapping key of the primary source of input e
PrimaryKey(e) == e.id \o (IF e.type = "axis" THEN "_axis" ELSE "_btn")

\* the mapping file has no entry under key, or null, or a negative index
Unmapped(key) ==
    \/ key \notin DOMAIN files.mapping
    \/ files.mapping[key].kind = "null"
    \/ files.mapping[key].kind = "num" /\ files.mapping[key].val < 0
    \/ files.mapping[key].kind = "axis" /\ files.mapping[key].val[1] < 0
    \/ files.mapping[key].kind = "btn" /\ files.mapping[key].val[2] < 0

(* C13: an input whose mapping entry is absent, null or negative has no
   entry in Joystick._map, and on every sample the loop body of the mapper
   for that input assigns nothing: the input is not among the names the next
   tick's mapper writes, and an unmapped axis holds after the whole tick the
   value it held before. *)
C13_UnmappedSkipped ==
    [][pc = "control" =>
        LET written == MapperWrites IN
        \A i \in DOMAIN inputs :
          Unmapped(PrimaryKey(inputs[i])) =>
            /\ PrimaryKey(inputs[i]) \notin DOMAIN joystick._map
            /\ inputs[i].id \notin written
            /\ ApplyInput(vehicle, inputs[i], joystick._map, Sample, now) = vehicle
            /\ (ticks' = ticks + 1 /\ inputs[i].type = "axis") =>
                 vehicle'[inputs[i].id] = vehicle[inputs[i].id]]_vars

\* a tick has run on a sample with both buttons held and the axis
\* deflected: the mapped fly_down and aileron were assigned, the unmapped
\* inputs were not
C13_Witness ==
    /\ pc = "control" /\ ticks > 0 /\ events = <<>> /\ uiEvents = 0
    /\ joy.buttons[0] /\ joy.buttons[1] /\ joy.axes[0] = One
    /\ vehicle.fly_down[2] /\ vehicle.aileron = One
    /\ vehicle.throttle = 0 /\ vehicle.rudder = 0 /\ vehicle.rudder_trim = 0
    /\ ~Reads("stop") /\ ~Reads("speed") /\ Reads("light")
    /\ ~vehicle.engine_start[2]

-----------------------------------------------------------------------------
(* C14 as claimed: at shutdown the cleanup of every registered service is
   called, in registration order, whether or not an earlier cleanup
   failed. *)
C14_Original ==
    [][(pc = "control" /\ pc' = "done") =>
        services'.cleaned = services.list]_vars

-----------------------------------------------------------------------------
\* the shutdown that ended the previous session wrote the settings file
SavedSettings ==
    /\ \E i \in DOMAIN services.cleaned : services.cleaned[i] = "vehicle"
    /\ "vehicle" \notin services.raised

(* C15 as claimed: a session started after a shutdown that saved the
   settings reads, for speed, light and the four trims, the value the field
   had when the previous session shut down. *)
C15_Original ==
    [][(pc = "done" /\ pc' = "control" /\ SavedSettings) =>
        \A k \in {"speed", "light", "throttle_trim", "rudder_trim",
                  "elevator_trim", "aileron_trim"} :
          GetAttr(vehicle', k, now') = vehicle.hist.previous[k]]_vars

(* C15 amended: the settings file holds speed and the four trims as they
   read at shutdown, and a session started after a shutdown that saved the
   settings reads those five values again; light is not saved and reads true
   at the start of every session, whatever it was before. *)
C15_SettingsRoundTrip ==
    [][/\ (pc = "control" /\ pc' = "done" /\ files' # files) =>
            files'.settings
              = [k \in {"speed", "throttle_trim", "rudder_trim",
                        "elevator_trim", "aileron_trim"} |->
                   GetAttr(vehicle, k, now)]
       /\ (pc = "done" /\ pc' = "control") =>
            /\ SavedSettings =>
                 \A k \in {"speed", "throttle_trim", "rudder_trim",
                           "elevator_trim", "aileron_trim"} :
                   GetAttr(vehicle', k, now') = vehicle.hist.previous[k]
            /\ GetAttr(vehicle', "light", now')]_vars

\* the second session starts with the speed and the rudder trim the first
\* one had reached by joystick and UI, and with the light on although the
\* first session ended with the light off
C15_Witness ==
    /\ pc = "control" /\ services.session = 2 /\ ticks = 0 /\ uiEvents = 0
    /\ "speed" \in DOMAIN files.settings /\ files.settings.speed
    /\ Reads("speed")
    /\ Reads("rudder_trim") = TrimStep
    /\ ~vehicle.hist.previous.light /\ Reads("light")

-----------------------------------------------------------------------------
(* C16 as claimed: only the tick handler assigns the Vehicle State; a UI
   event handler leaves every field as it was. *)
C16_Original ==
    [][(pc = "control" /\ uiEvents' = uiEvents + 1) => vehicle' = vehicle]_vars

\* the input whose setter the setter of id also reaches
Partner(id) ==
    CASE id = "stop" -> "up"
      [] id = "up" -> "stop"
      [] id = "fly_no_head" -> "fly_back"
      [] OTHER -> id

(* C16 amended: the Vehicle State changes only in a tick, in a UI event
   handler or when the session ends, each of which runs as a whole.  A press
   on a check box assigns the box's new state to its input (fly_back still
   reads false while fly_no_head is false) and touches no other input but
   the one its setter clears; a press on the box of a once input that reads
   true assigns nothing.  A press on a trim button adds one trim_step, up or
   down, to that trim and changes nothing else. *)
C16_UiWrites ==
    [][pc = "control" =>
        /\ vehicle' # vehicle =>
             (ticks' = ticks + 1 \/ uiEvents' = uiEvents + 1 \/ pc' = "done")
        /\ (uiEvents' = uiEvents + 1 /\ checkbox' # checkbox) =>
             \E id \in DOMAIN checkbox :
               /\ checkbox'[id] = ~checkbox[id]
               /\ \A o \in DOMAIN checkbox \ {id} : checkbox'[o] = checkbox[o]
               /\ IF id \in TimedNames /\ GetAttr(vehicle, id, now)
                  THEN vehicle' = vehicle
                  ELSE /\ GetAttr(vehicle', id, now')
                            = (checkbox'[id]
                               /\ (id = "fly_back" => Reads("fly_no_head")))
                       /\ \A o \in Driven \ {id, Partner(id)} :
                            GetAttr(vehicle', o, now') = GetAttr(vehicle, o, now)
        /\ (uiEvents' = uiEvents + 1 /\ checkbox' = checkbox) =>
             \E k \in {"rudder_trim", "aileron_trim", "elevator_trim"},
                d \in {-TrimStep, TrimStep} :
               vehicle' = [vehicle EXCEPT ![k] = Clamped(@ + d)]]_vars

\* fly_up, which no joystick source is mapped to, was set by its check box
\* and the frame of a later tick carried it
C16_Witness ==
    /\ pc = "control" /\ uiEvents = 1 /\ ticks > 0
    /\ Source("fly_up") = None
    /\ vehicle.fly_up[2] /\ Reads("fly_up")
    /\ wire.ok /\ Bit(wire.packet, 22, 6)

-----------------------------------------------------------------------------
\* the bit of the first flag byte that carries the once input id
OnceBit(id) ==
    CASE id = "fly_360_roll" -> 3
      [] id = "engine_start" -> 4
      [] id = "fly_down" -> 5
      [] id = "fly_up" -> 6

(* C17: for a once input with a mapped source, a tick whose down set holds
   the source stores (now, true), so the flag reads true and the tick's frame
   carries it; in a tick without that down edge the mapper does not assign
   the flag, whether the source is held or was released, and the flag reads
   what it read.  The stored value becomes true only in such a tick or by a
   press on the check box, and the flag reads true only within its timeout of
   that moment: a held source does not keep it alive. *)
C17_OncePulse ==
    [][pc = "control" =>
        \A id \in TimedNames :
          Source(id) # None =>
            /\ (ticks' = ticks + 1 /\ Source(id) \in Sample.down) =>
                 /\ id \in MapperWrites
                 /\ vehicle'[id] = <<now, TRUE>>
                 /\ GetAttr(vehicle', id, now')
                 /\ Bit(wire'.packet, 22, OnceBit(id))
            /\ (ticks' = ticks + 1 /\ Source(id) \notin Sample.down) =>
                 /\ id \notin MapperWrites
                 /\ GetAttr(vehicle', id, now') = GetAttr(vehicle, id, now)
            /\ (vehicle'[id] # vehicle[id] /\ vehicle'[id][2]) =>
                 \/ ticks' = ticks + 1 /\ Source(id) \in Sample.down
                 \/ uiEvents' = uiEvents + 1
            /\ GetAttr(vehicle', id, now') =>
                 (vehicle'[id][2] /\ now' - vehicle'[id][1] < Timeout(id))]_vars

\* the button has been held since its down edge; the latest tick saw it
\* held, and its frame carries engine_start but no longer fly_360_roll
C17_Witness ==
    /\ pc = "control" /\ ticks >= 2 /\ events = <<>> /\ uiEvents = 0
    /\ Source("fly_360_roll") = <<"btn", 0>> /\ joy.buttons[0]
    /\ ~Reads("fly_360_roll") /\ ~Bit(wire.packet, 22, 3)
    /\ Reads("engine_start") /\ Bit(wire.packet, 22, 4)

-----------------------------------------------------------------------------
\* the trim-capable axes
TrimAxes == {inputs[i].id : i \in {n \in DOMAIN inputs : inputs[n].trim}}

\* the trim of axis id after a tick on the sample st, as C18 states it: one
\* step down for a down edge of the decrease button, one step up for a down
\* edge of the increase button, each result clamped
TrimAfter(id, st) ==
    LET dec == MapGet(joystick._map, id \o "_trim_dec_btn", None)
        inc == MapGet(joystick._map, id \o "_trim_inc_btn", None)
        low == IF dec \in st.down
               THEN Clamped(vehicle[id \o "_trim"] - TrimStep)
               ELSE vehicle[id \o "_trim"]
    IN IF inc \in st.down THEN Clamped(low + TrimStep) ELSE low

\* a trim button of axis id is mapped
TrimMapped(id) ==
    \/ id \o "_trim_dec_btn" \in DOMAIN joystick._map
    \/ id \o "_trim_inc_btn" \in DOMAIN joystick._map

(* C18 as claimed: for a trim-capable axis with a mapped trim button, every
   tick with a down edge of the decrease (increase) button subtracts (adds)
   one trim_step, clamped, and a tick without such an edge leaves the trim
   unchanged. *)
C18_Original ==
    [][(pc = "control" /\ ticks' = ticks + 1) =>
        \A id \in TrimAxes :
          TrimMapped(id) =>
            vehicle'[id \o "_trim"] = TrimAfter(id, Sample)]_vars

(* The same for the axes that are themselves mapped to an axis the device
   has: there the trim buttons do what C18 says. *)
C18_TrimWhenAxisMapped ==
    [][(pc = "control" /\ ticks' = ticks + 1) =>
        \A id \in TrimAxes :
          (/\ TrimMapped(id)
           /\ id \o "_axis" \in DOMAIN joystick._map
           /\ joystick._map[id \o "_axis"][1] \in DOMAIN Sample.axes) =>
            vehicle'[id \o "_trim"] = TrimAfter(id, Sample)]_vars

-----------------------------------------------------------------------------
\* the keys under which the wizard stores an axis
AxisKeys == {inputs[i].id \o "_axis" : i \in {n \in DOMAIN inputs : inputs[n].type = "axis"}}

\* the axes the mapping w.mapping holds under its axis keys
CapturedAxes(w) == {w.mapping[k][1] : k \in DOMAIN w.mapping \cap AxisKeys}

(* C19: a wizard tick stores an axis only at an axis prompt, only an axis
   whose normalized magnitude in that tick's sample is at least 0.9 and which
   is not locked (the lowest such index, with the sign of its value), and
   locks it; a locked axis leaves the lock set only in a tick whose sample
   shows it below 0.1.  So an axis that is already in the mapping is stored
   again only if a tick saw it below 0.1 since it was last captured
   (hist.rested). *)
C19_AxisLock ==
    [][(pc = "calibrate" /\ pc' = "calibrate") =>
        /\ \A k \in (DOMAIN wizard'.mapping \ DOMAIN wizard.mapping) \cap AxisKeys :
             LET i == wizard'.mapping[k][1] IN
             /\ k = inputs[wizard._current + 1].id \o "_axis"
             /\ wizard._current_sub = 0
             /\ i \in DOMAIN Sample.axes
             /\ Abs(Sample.axes[i]) >= 288
             /\ i \notin wizard._locked_axes
             /\ i \in wizard'._locked_axes
             /\ wizard'.mapping[k][2] = (Sample.axes[i] >= 0)
             /\ \A j \in DOMAIN Sample.axes :
                  (j < i /\ Abs(Sample.axes[j]) >= 288) => j \in wizard._locked_axes
             /\ i \in CapturedAxes(wizard) => i \in wizard.hist.rested
        /\ \A i \in wizard._locked_axes \ wizard'._locked_axes :
             i \in DOMAIN Sample.axes /\ Abs(Sample.axes[i]) < 32
        /\ wizard._locked_axes \subseteq CapturedAxes(wizard)]_vars

\* axis 0 was captured for throttle and, after a tick saw it at rest, again
\* for rudder; it is locked and still fully deflected at the aileron prompt,
\* where a tick has passed it over and captured axis 1 instead
C19_Witness ==
    /\ pc = "calibrate"
    /\ DOMAIN wizard.mapping = {"throttle_axis", "rudder_axis", "aileron_axis"}
    /\ wizard.mapping["throttle_axis"] = <<0, TRUE>>
    /\ wizard.mapping["rudder_axis"] = <<0, FALSE>>
    /\ wizard.mapping["aileron_axis"] = <<1, TRUE>>
    /\ joy.axes[0] = -One /\ 0 \in wizard._locked_axes

-----------------------------------------------------------------------------
\* does a hat value assert direction d: 0 is x = -1, 1 is y = -1, 2 is x = 1
\* and 3 is y = 1
Asserts(value, d) ==
    CASE d = 0 -> value[1] = -1
      [] d = 1 -> value[2] = -1
      [] d = 2 -> value[1] = 1
      [] d = 3 -> value[2] = 1

\* the value hat h had before the i-th queued event: that of the latest
\* earlier event of the hat, or the one the previous tick left
HatBefore(i, h) ==
    LET earlier == {j \in 1..(i - 1) :
                      events[j].type = "JOYHATMOTION" /\ events[j].hat = h}
    IN IF earlier = {} THEN MapGet(joystick._prev_hats, h, <<0, 0>>)
       ELSE events[CHOOSE j \in earlier : \A m \in earlier : m <= j].value

\* some queued event changes direction d of hat h to asserted (to = TRUE) or
\* to not asserted (to = FALSE)
Changes(h, d, to) ==
    \E i \in DOMAIN events :
      /\ events[i].type = "JOYHATMOTION" /\ events[i].hat = h
      /\ Asserts(events[i].value, d) = to
      /\ Asserts(HatBefore(i, h), d) = ~to

(* C20: with the device attached, slot hat * 4 + d is in the down set of a
   tick exactly when one of the tick's hat events changes direction d from
   not asserted to asserted, and in the up set exactly when one changes it
   back, so the edges of a slot alternate and start with down (the hat
   starts at rest); the slot is in the active set exactly when the polled
   value asserts d, and a hat at (0, 0) has no slot active.  Between ticks
   _prev_hats holds the value of the hat, so a change is a change of the
   hat itself. *)
C20_HatEdges ==
    [][(pc = "control" /\ joy.count = 1) =>
        /\ \A h \in DOMAIN joy.hats, d \in 0..3 :
             /\ (<<"hat", h * 4 + d>> \in Sample.down) <=> Changes(h, d, TRUE)
             /\ (<<"hat", h * 4 + d>> \in Sample.up) <=> Changes(h, d, FALSE)
             /\ (<<"hat", h * 4 + d>> \in Sample.active) <=> Asserts(joy.hats[h], d)
             /\ joy.hats[h] = <<0, 0>> => <<"hat", h * 4 + d>> \notin Sample.active
        /\ \A h \in DOMAIN joy.hats : HatBefore(Len(events) + 1, h) = joy.hats[h]
        /\ ticks' = ticks + 1 =>
             \A h \in DOMAIN joy.hats :
               MapGet(joystick'._prev_hats, h, <<0, 0>>) = joy.hats[h]]_vars

\* a tick has seen hat 0 go from rest to left and on to left-up: stop
\* (left) is held, and light (up) was toggled off by the down edge
C20_Witness ==
    /\ pc = "control" /\ ticks = 1 /\ events = <<>> /\ uiEvents = 0
    /\ joy.hats[0] = <<-1, 1>>
    /\ MapGet(joystick._prev_hats, 0, <<0, 0>>) = <<-1, 1>>
    /\ Reads("stop") /\ ~Reads("light") /\ ~Reads("up") /\ ~Reads("speed")

-----------------------------------------------------------------------------
\* is the input the wizard asks for an axis with trimmer buttons
AtTrimAxis(w) ==
    /\ w._current < Len(inputs)
    /\ inputs[w._current + 1].type = "axis"
    /\ inputs[w._current + 1].trim

(* C21: in every state of the wizard, 0 <= _current <= number of inputs and
   _current_sub is 0, 1 or 2; _current_sub is 1 or 2 only while the current
   input is an axis with trimmer buttons, and it is 0 in the terminal state
   (_current = number of inputs). *)
C21_WizardPosition ==
    /\ wizard._current \in 0..Len(inputs)
    /\ wizard._current_sub \in {0, 1, 2}
    /\ wizard._current_sub > 0 => AtTrimAxis(wizard)
    /\ wizard._current = Len(inputs) => wizard._current_sub = 0

\* the wizard asks for the increase button of the last trimmer, after a
\* capture and a skip
C21_Witness ==
    /\ pc = "calibrate"
    /\ wizard._current = 3 /\ wizard._current_sub = 2
    /\ inputs[wizard._current + 1].id = "elevator"
    /\ wizard.hist.captures > 0 /\ uiEvents > 0

-----------------------------------------------------------------------------
(* C22: the previous-frame buffer starts all zero, and the 26 bytes of every
   frame handed to the transport, whether the send succeeds or fails, sum to
   a multiple of 255: the diff byte makes the sum of a frame congruent
   mod 255 to the sum of the buffer, which holds the last frame the
   transport accepted.  Every byte of a frame is in 0..255, and the diff
   byte in 0..254. *)
C22_FrameSum ==
    /\ ByteSum(vehicle._prev_packet, 0, 25) % 255 = 0
    /\ ticks = 0 => vehicle._prev_packet = ZeroPacket
    /\ (pc = "control" /\ ticks > 0) =>
         /\ DOMAIN wire.packet = 0..25
         /\ \A i \in 0..25 : wire.packet[i] \in 0..255
         /\ wire.packet[10] \in 0..254
         /\ ByteSum(wire.packet, 0, 25) % 255
              = ByteSum(vehicle._prev_packet, 0, 25) % 255
         /\ ByteSum(wire.packet, 0, 25) % 255 = 0

\* a send failed after an earlier one succeeded, on a frame with another
\* throttle byte and a diff byte that is not 0
C22_Witness ==
    /\ pc = "control" /\ ticks = MaxTicks /\ nSent > 0
    /\ ~wire.ok
    /\ wire.packet[14] # vehicle._prev_packet[14]
    /\ wire.packet[10] # 0
    /\ ByteSum(wire.packet, 0, 25) > 255

-----------------------------------------------------------------------------
\* the mapping key of the prompt the wizard shows
PromptKey(w) ==
    LET _input == inputs[w._current + 1] IN
    CASE w._current_sub = 0 -> PrimaryKey(_input)
      [] w._current_sub = 1 -> _input.id \o "_trim_dec_btn"
      [] w._current_sub = 2 -> _input.id \o "_trim_inc_btn"

(* C23: while the wizard runs, a tick writes at most one mapping entry, the
   entry of the prompt it shows, and advances the position by one step when
   it writes and not at all otherwise, however many axes or buttons the tick
   could have taken; the position never goes back and the key of the prompt
   is not yet in the mapping, so no entry is overwritten or removed; in the
   terminal state a tick changes neither the position nor the mapping. *)
C23_OneStepPerTick ==
    [][(pc = "calibrate" /\ pc' # "done") =>
        LET new == DOMAIN wizard'.mapping \ DOMAIN wizard.mapping IN
        /\ StepIndex(wizard') - StepIndex(wizard) \in {0, 1}
        /\ wizard'._current >= wizard._current
        /\ \A k \in DOMAIN wizard.mapping :
             k \in DOMAIN wizard'.mapping /\ wizard'.mapping[k] = wizard.mapping[k]
        /\ Cardinality(new) <= 1
        /\ wizard._current < Len(inputs) =>
             PromptKey(wizard) \notin DOMAIN wizard.mapping
        /\ new # {} =>
             /\ uiEvents' = uiEvents
             /\ new = {PromptKey(wizard)}
             /\ StepIndex(wizard') = StepIndex(wizard) + 1
             /\ wizard'.hist.qualified >= 1
        /\ (uiEvents' = uiEvents /\ new = {}) =>
             /\ StepIndex(wizard') = StepIndex(wizard)
             /\ wizard'.hist # wizard.hist => wizard'.hist.qualified = 0
        /\ wizard._current = Len(inputs) =>
             /\ wizard'.mapping = wizard.mapping
             /\ wizard'._current = wizard._current
             /\ wizard'._current_sub = wizard._current_sub]_vars

\* a tick saw both buttons go down at the prompt for the decrease button of
\* the rudder trimmer: it took button 0 and moved on to the increase button
C23_Witness ==
    /\ pc = "calibrate" /\ events = <<>>
    /\ wizard.hist.qualified = 2 /\ wizard.hist.captures = 1
    /\ wizard._current = 1 /\ wizard._current_sub = 2
    /\ DOMAIN wizard.mapping = {"rudder_trim_dec_btn"}
    /\ wizard.mapping["rudder_trim_dec_btn"] = <<"btn", 0>>
    /\ joy.buttons[0] /\ joy.buttons[1]

-----------------------------------------------------------------------------
\* stop and up are mapped to two different sources and the tick about to
\* run finds both sources active
BothPushActive ==
    /\ Source("stop") # None /\ Source("up") # None
    /\ Source("stop") # Source("up")
    /\ Source("stop") \in Sample.active
    /\ Source("up") \in Sample.active

(* C24: when stop and up are mapped to different sources and a mapper tick
   finds both sources active, the mapper assigns stop and then up, so after
   the tick up reads true and stop reads false, and the frame the tick
   encodes carries the up bit (bit 3 of the byte at offset 23) and not the
   stop bit (bit 1). *)
C24_UpAfterStop ==
    [][(pc = "control" /\ ticks' = ticks + 1 /\ BothPushActive) =>
        /\ GetAttr(vehicle', "up", now')
        /\ ~GetAttr(vehicle', "stop", now')
        /\ Bit(wire'.packet, 23, 3)
        /\ ~Bit(wire'.packet, 23, 1)]_vars

\* both buttons are held and a tick has run since the later one went down:
\* up reads true, stop reads false, and so says the frame
C24_Witness ==
    /\ pc = "control" /\ ticks > 0 /\ events = <<>> /\ uiEvents = 0
    /\ Source("stop") = <<"btn", 0>> /\ Source("up") = <<"btn", 1>>
    /\ joy.count = 1 /\ joy.buttons[0] /\ joy.buttons[1]
    /\ Reads("up") /\ ~Reads("stop")
    /\ Bit(wire.packet, 23, 3) /\ ~Bit(wire.packet, 23, 1)

====
